---- MODULE Spec2Model ----
(***************************************************************************)
(* DCJumps: aggregation of DATACO jump files.                              *)
(*                                                                         *)
(* Two revisions of DC_Jumps.py are modelled:                              *)
(*   - the worker-pool revision  src/jumpapp/src/scripts/DC_Jumps.py       *)
(*   - the sequential revision   src/src/scripts/DC_Jumps.py               *)
(*                                                                         *)
(* Representation of Python values:                                        *)
(*   a character          a one-character string ("2", "S"); the literal   *)
(*                        pieces "DATACO-" and ".jump" of a file name are  *)
(*                        kept as one atom each                            *)
(*   a token              a sequence of characters                         *)
(*   a base name          the sequence of its '_'-separated tokens         *)
(*   a session name       the sequence of its '_'-separated tokens         *)
(*   a path               [dir |-> sequence of folders under base_dir,     *)
(*                         name |-> base name]                             *)
(*   a text line          a sequence of words and whitespace atoms " "     *)
(*   a datetime           <<year, month, day, hour, minute, second>>       *)
(*   None                 <<>>                                             *)
(*   a Counter            a function from its keys to positive counts      *)
(***************************************************************************)
EXTENDS Integers, Sequences, FiniteSets, TLC

\* ------------------------------------------------------------------------
\* Bounds of the model
\* ------------------------------------------------------------------------

\* Largest number of jump files present under the base directory.
MaxFiles == 2

\* Largest number of '_'-separated tokens before the tail of a base name
\* in the name-codec specification.
MaxParts == 3

\* Largest number of dataset ids in one compare or merge request.
MaxIds == 2

\* ------------------------------------------------------------------------
\* Generic helpers
\* ------------------------------------------------------------------------

None == <<>>

Range(s) == {s[i] : i \in 1..Len(s)}

Min2(a, b) == IF a <= b THEN a ELSE b

RECURSIVE SumOver(_, _)
\* Sum of g[x] over the finite set S.
SumOver(S, g) ==
    IF S = {} THEN 0
    ELSE LET x == CHOOSE y \in S : TRUE IN g[x] + SumOver(S \ {x}, g)

\* All sequences over S of length at most n.
SeqsUpTo(S, n) == UNION {[1..k -> S] : k \in 0..n}

\* All orderings (lists without repetition) of the finite set S.
Orderings(S) ==
    {p \in [1..Cardinality(S) -> S] : \A i, j \in 1..Cardinality(S) : i # j => p[i] # p[j]}

\* ------------------------------------------------------------------------
\* Characters and tokens
\* ------------------------------------------------------------------------

Digits == {"0", "1", "2", "3", "4", "5", "6", "7", "8", "9"}

\* int(c) for a digit character
DigitVal(c) ==
    CASE c = "0" -> 0 [] c = "1" -> 1 [] c = "2" -> 2 [] c = "3" -> 3
      [] c = "4" -> 4 [] c = "5" -> 5 [] c = "6" -> 6 [] c = "7" -> 7
      [] c = "8" -> 8 [] c = "9" -> 9

\* str.isdigit(): non-empty and every character a digit
isdigit(tok) == Len(tok) > 0 /\ \A i \in 1..Len(tok) : tok[i] \in Digits

\* The two-digit number at positions i, i+1 of a digit token
TwoDigits(tok, i) == 10 * DigitVal(tok[i]) + DigitVal(tok[i + 1])

\* ------------------------------------------------------------------------
\* datetime
\* ------------------------------------------------------------------------

\* datetime.min
datetime_min == <<1, 1, 1, 0, 0, 0>>

IsLeap(y) == (y % 4 = 0 /\ y % 100 # 0) \/ y % 400 = 0

DaysInMonth(y, m) ==
    IF m = 2 THEN (IF IsLeap(y) THEN 29 ELSE 28)
    ELSE IF m \in {4, 6, 9, 11} THEN 30 ELSE 31

\* a < b on datetimes: the comparison sorted(), min() and max() use
DtLess(a, b) ==
    \E i \in 1..6 : a[i] < b[i] /\ \A j \in 1..(i - 1) : a[j] = b[j]

DtLeq(a, b) == a = b \/ DtLess(a, b)

\* datetime.strptime(dt_str, "%y%m%d%H%M%S") on a string of 12 digits:
\* the datetime, or None where strptime raises ValueError.  Every directive
\* must take two digits for the whole string to be consumed; %y maps 00..68
\* to 2000..2068 and 69..99 to 1969..1999.
strptime12(s) ==
    LET yy == TwoDigits(s, 1)
        mo == TwoDigits(s, 3)
        dd == TwoDigits(s, 5)
        hh == TwoDigits(s, 7)
        mi == TwoDigits(s, 9)
        ss == TwoDigits(s, 11)
        year == IF yy < 69 THEN 2000 + yy ELSE 1900 + yy
    IN  IF /\ mo \in 1..12
           /\ dd >= 1
           /\ dd <= DaysInMonth(year, mo)
           /\ hh <= 23
           /\ mi <= 59
           /\ ss <= 59
        THEN <<year, mo, dd, hh, mi, ss>>
        ELSE None

\* ------------------------------------------------------------------------
\* Name codec (worker-pool revision)
\* ------------------------------------------------------------------------

\* The least index i such that parts[i] is a 6-digit token and parts[i+1]
\* begins with 6 digits; 0 when there is none (the for loop of
\* parse_date_from_session).
FirstDateTimeIndex(parts) ==
    LET hits == {i \in 1..Len(parts) :
                    /\ Len(parts[i]) = 6
                    /\ isdigit(parts[i])
                    /\ i + 1 <= Len(parts)
                    /\ Len(parts[i + 1]) >= 6
                    /\ isdigit(SubSeq(parts[i + 1], 1, 6))}
    IN  IF hits = {} THEN 0 ELSE CHOOSE i \in hits : \A j \in hits : i <= j

\* parse_date_from_session: the session name is given as session_name.split('_')
parse_date_from_session(session_name) ==
    LET parts == session_name
        i == FirstDateTimeIndex(parts)
    IN  IF Len(parts) >= 3 /\ i # 0
        THEN strptime12(parts[i] \o SubSeq(parts[i + 1], 1, 6))
        ELSE None

\* The last token of a base name is exactly "DATACO-<digits>.jump"
IsDatacoTail(tok) ==
    /\ Len(tok) >= 3
    /\ tok[1] = "DATACO-"
    /\ tok[Len(tok)] = ".jump"
    /\ isdigit(SubSeq(tok, 2, Len(tok) - 1))

\* os.path.basename
basename(file_path) == file_path.name

\* extract_session_name: re.match(r'^(.*?)_([^_]+)_DATACO-\d+\.jump$') and
\* group(1), else None.  The tail "_<suffix>_DATACO-<digits>.jump" holds no
\* '_' inside <suffix> or after it, so it is the last two tokens of the name
\* and group(1) is what precedes them (possibly the empty string, written
\* << <<>> >>: one empty token).
extract_session_name(file_path) ==
    LET name == basename(file_path)
        n == Len(name)
    IN  IF n >= 3 /\ IsDatacoTail(name[n]) /\ Len(name[n - 1]) > 0
        THEN SubSeq(name, 1, n - 2)
        ELSE None

\* Python truthiness of an Optional[str]: None and "" are false
Truthy(session_name) == session_name # None /\ session_name # << <<>> >>

\* get_date_key_for_sort
get_date_key_for_sort(file_path) ==
    LET session_name == extract_session_name(file_path)
        dt == IF Truthy(session_name) THEN parse_date_from_session(session_name) ELSE None
    IN  IF dt # None THEN dt ELSE datetime_min

\* ------------------------------------------------------------------------
\* The file system: a universe of jump files, of which a subset is present
\* ------------------------------------------------------------------------

\* Tokens of base names
T_S1 == <<"S", "1">>
T_S2 == <<"S", "2">>
T_S3 == <<"S", "3">>
T_W == <<"W">>
T_x == <<"x">>
T_y == <<"y">>
T_z == <<"z">>
T_250108 == <<"2", "5", "0", "1", "0", "8">>
T_250107 == <<"2", "5", "0", "1", "0", "7">>
T_250230 == <<"2", "5", "0", "2", "3", "0">>
T_095047 == <<"0", "9", "5", "0", "4", "7">>
T_120000 == <<"1", "2", "0", "0", "0", "0">>
T_100000 == <<"1", "0", "0", "0", "0", "0">>

\* The token "DATACO-<id>.jump"
DatacoTail(id) == <<"DATACO-">> \o id \o <<".jump">>

\* Dataset ids that occur in file names
Id1 == <<"1">>
Id2 == <<"2">>

\* Whitespace atoms of a text line
Whitespace == {" ", "\n"}

\* Raw text lines
L_a == <<"tf", " ", "cam", " ", "10", " ", "a", "\n">>
L_b == <<"tf", " ", "cam", " ", "11", " ", "b", "\n">>
L_bigc == <<"tf", " ", "cam", " ", "12", " ", "big", " ", "c">>
L_short == <<"tf", " ", "cam", "\n">>
L_fmt == <<"#format:", " ", "x", "\n">>
L_fmtlead == <<" ", "#format:v2", " ", "x", "\n">>
L_blank == <<" ", "\n">>

\* Paths of the universe
P_1 == [dir |-> <<"P1">>, name |-> <<T_S1, T_W, T_250108, T_095047, T_x, DatacoTail(Id1)>>]
P_2 == [dir |-> <<"P2">>, name |-> <<T_S2, T_W, T_250107, T_120000, T_y, DatacoTail(Id2)>>]
P_3 == [dir |-> <<"P1">>, name |-> <<T_250108, T_095047, T_x, DatacoTail(Id1)>>]
P_4 == [dir |-> <<"P2">>, name |-> <<T_S1, DatacoTail(Id1)>>]
P_5 == [dir |-> <<"P1">>, name |-> <<T_S3, T_W, T_250230, T_100000, T_x, DatacoTail(Id2)>>]
P_6 == [dir |-> <<"P2">>, name |-> <<T_S1, T_W, T_250108, T_095047, T_z, DatacoTail(Id2)>>]

\* The universe: what each path holds when it is present.  enc is the first
\* encoding of ENCODINGS_TO_TRY under which the bytes decode ("utf-8" or
\* "latin-1"; latin-1 decodes every byte string), or "error" when open()
\* raises an error other than UnicodeDecodeError.
Universe ==
    (P_1 :> [lines |-> <<L_a, L_fmtlead, L_b>>, enc |-> "utf-8"]) @@
    (P_2 :> [lines |-> <<L_b, L_bigc>>, enc |-> "latin-1"]) @@
    (P_3 :> [lines |-> <<L_fmt>>, enc |-> "utf-8"]) @@
    (P_4 :> [lines |-> <<L_a>>, enc |-> "utf-8"]) @@
    (P_5 :> [lines |-> <<L_short, L_blank>>, enc |-> "utf-8"]) @@
    (P_6 :> [lines |-> <<L_bigc>>, enc |-> "error"])

Paths == DOMAIN Universe

\* Dataset ids a caller may request: the two ids, and the glob pattern "?"
\* (the id is pasted into the glob pattern unescaped)
Ids == {Id1, Id2, <<"?">>}

\* The lists of ids a caller may pass
IdLists == SeqsUpTo(Ids, MaxIds)

\* ------------------------------------------------------------------------
\* File discovery (worker-pool revision)
\* ------------------------------------------------------------------------

\* One character of a glob pattern against one character of a name
GlobChar(pc, c) == IF pc = "?" THEN c \notin {"DATACO-", ".jump"} ELSE pc = c

\* The base name as one string: its tokens joined by "_"
RECURSIVE JoinName(_)
JoinName(name) ==
    IF Len(name) = 0 THEN <<>>
    ELSE IF Len(name) = 1 THEN name[1]
    ELSE name[1] \o <<"_">> \o JoinName(Tail(name))

\* fnmatch of a base name against "*DATACO-<dataco_number>.jump"
GlobMatch(dataco_number, name) ==
    LET s == JoinName(name)
        pat == DatacoTail(dataco_number)
        off == Len(s) - Len(pat)
    IN  /\ off >= 0
        /\ \A i \in 1..Len(pat) : GlobChar(pat[i], s[off + i])

\* glob.glob(os.path.join(project_folder, "*DATACO-<n>.jump")) over every
\* folder directly under base_dir: the set of files found
FoundFiles(dataco_number, files_present) ==
    {p \in files_present : Len(p.dir) = 1 /\ GlobMatch(dataco_number, p.name)}

\* The orders in which all_files can list the files found: folder by folder
\* (os.scandir order), each folder's files in glob order
GlobOrders(found) ==
    {o \in Orderings(found) :
        \A i, j, k \in 1..Len(o) :
            (i < j /\ j < k /\ o[i].dir = o[k].dir) => o[j].dir = o[i].dir}

\* Mutant of ProjectMapOf: every project lists every file found
ProjectMapOfAll(found) ==
    [proj \in {p.dir[1] : p \in found} |-> found]

\* result.project_map after the discovery loop: project name -> files found
ProjectMapOf(found) ==
    [proj \in {p.dir[1] : p \in found} |-> {p \in found : p.dir[1] = proj}]

\* sorted(files, key=get_date_key_for_sort): a stable insertion sort
RECURSIVE InsertByKey(_, _)
InsertByKey(sorted, f) ==
    IF sorted = <<>> THEN <<f>>
    ELSE IF DtLess(get_date_key_for_sort(f), get_date_key_for_sort(sorted[Len(sorted)]))
         THEN Append(InsertByKey(SubSeq(sorted, 1, Len(sorted) - 1), f), sorted[Len(sorted)])
         ELSE Append(sorted, f)

\* Mutant of sort_files_by_date_key: the list is returned as found
sort_files_unsorted(files) == files

RECURSIVE sort_files_by_date_key(_)
sort_files_by_date_key(files) ==
    IF files = <<>> THEN <<>>
    ELSE InsertByKey(sort_files_by_date_key(SubSeq(files, 1, Len(files) - 1)),
                     files[Len(files)])

\* ------------------------------------------------------------------------
\* Processing one file (worker-pool revision)
\* ------------------------------------------------------------------------

FORMAT_LINE_PREFIX == "#format:"

\* The words of the alphabet that begin with FORMAT_LINE_PREFIX
FormatWords == {FORMAT_LINE_PREFIX, "#format:v2"}

\* f"{FORMAT_LINE_PREFIX} {VERSION_TAG}"
TrailerLine ==
    <<FORMAT_LINE_PREFIX, " ", "trackfile", " ", "camera", " ", "frameIDStartFrame", " ", "tag">>

\* str.strip()
RECURSIVE strip(_)
strip(line) ==
    IF line = <<>> THEN <<>>
    ELSE IF line[1] \in Whitespace THEN strip(Tail(line))
    ELSE IF line[Len(line)] \in Whitespace THEN strip(SubSeq(line, 1, Len(line) - 1))
    ELSE line

\* str.split(): the words between runs of whitespace
split(line) == SelectSeq(line, LAMBDA w : w \notin Whitespace)

\* str.startswith(FORMAT_LINE_PREFIX)
startswith_format(line) == Len(line) > 0 /\ line[1] \in FormatWords

\* The result None of a function returning Optional[str] whose strings are
\* words (never empty): the caller tests "if tag:"
NoTag == ""

\* Mutant of extract_tag_from_line: two fields are enough for a tag
extract_tag_from_2_fields(line) ==
    LET parts == split(strip(line))
    IN  IF Len(parts) >= 2 THEN parts[Len(parts)] ELSE NoTag

\* extract_tag_from_line: the last field of a line of at least 4 fields
extract_tag_from_line(line) ==
    LET parts == split(strip(line))
    IN  IF Len(parts) >= 4 THEN parts[Len(parts)] ELSE NoTag

\* A Counter
EmptyCounter == [t \in {} |-> 0]

CounterGet(c, t) == IF t \in DOMAIN c THEN c[t] ELSE 0

\* counter[t] += 1
CounterInc(c, t) == [u \in DOMAIN c \cup {t} |-> CounterGet(c, u) + (IF u = t THEN 1 ELSE 0)]

\* Mutant of CounterUpdate: dict.update, the other count replaces the count
CounterOverwrite(c, other) ==
    [u \in DOMAIN c \cup DOMAIN other |-> IF u \in DOMAIN other THEN other[u] ELSE c[u]]

\* Counter.update(other): counts are added
CounterUpdate(c, other) ==
    [u \in DOMAIN c \cup DOMAIN other |-> CounterGet(c, u) + CounterGet(other, u)]

\* Mutant of KeepLine: the prefix is looked for in the line as read
KeepLineUnstripped(line) == strip(line) # <<>> /\ ~startswith_format(line)

\* A line is kept when it is non-empty after strip() and is no format line
KeepLine(line) == strip(line) # <<>> /\ ~startswith_format(strip(line))

\* Mutant of LinesContent: each kept line is put before the earlier ones
RECURSIVE LinesContentReversed(_)
LinesContentReversed(lines) ==
    IF lines = <<>> THEN <<>>
    ELSE LET rest == LinesContentReversed(SubSeq(lines, 1, Len(lines) - 1))
             line == lines[Len(lines)]
         IN  IF KeepLine(line) THEN <<strip(line)>> \o rest ELSE rest

\* The "Process lines" loop of process_file_task: lines_content
RECURSIVE LinesContent(_)
LinesContent(lines) ==
    IF lines = <<>> THEN <<>>
    ELSE LET rest == LinesContent(SubSeq(lines, 1, Len(lines) - 1))
             line == lines[Len(lines)]
         IN  IF KeepLine(line) THEN Append(rest, strip(line)) ELSE rest

\* The "Process lines" loop of process_file_task: tag_counter
RECURSIVE TagCounter(_)
TagCounter(lines) ==
    IF lines = <<>> THEN EmptyCounter
    ELSE LET rest == TagCounter(SubSeq(lines, 1, Len(lines) - 1))
             line == lines[Len(lines)]
             tag == extract_tag_from_line(strip(line))
         IN  IF KeepLine(line) /\ tag # NoTag THEN CounterInc(rest, tag) ELSE rest

\* process_file_task: [ok |-> FALSE] stands for the result None
process_file_task(file_path) ==
    LET session_name == extract_session_name(file_path)
        file == Universe[file_path]
    IN  IF ~Truthy(session_name) THEN [ok |-> FALSE]
        ELSE IF file.enc = "error" THEN [ok |-> FALSE]
        ELSE [ok |-> TRUE,
              session_name |-> session_name,
              lines_content |-> LinesContent(file.lines),
              tag_counter |-> TagCounter(file.lines)]

\* ------------------------------------------------------------------------
\* DATACOData
\* ------------------------------------------------------------------------

EmptyMap == [x \in {} |-> None]

\* dict[k] = v
MapPut(m, k, v) == [x \in DOMAIN m \cup {k} |-> IF x = k THEN v ELSE m[x]]

\* dict.update(other): other's entries overwrite
MapUpdate(m, other) ==
    [x \in DOMAIN m \cup DOMAIN other |-> IF x \in DOMAIN other THEN other[x] ELSE m[x]]

\* Mutant of DATACOData: a new aggregate already holds the trailer line
DATACODataWithTrailer(dataco_number) ==
    [dataco_number |-> dataco_number,
     files |-> <<>>,
     project_map |-> EmptyMap,
     content |-> <<TrailerLine>>,
     tag_counts |-> EmptyCounter,
     event_count |-> 0,
     session_names |-> {},
     session_dates |-> EmptyMap,
     min_date |-> None,
     max_date |-> None,
     processed_files_count |-> 0,
     failed_files |-> <<>>]

\* DATACOData.__init__
DATACOData(dataco_number) ==
    [dataco_number |-> dataco_number,
     files |-> <<>>,
     project_map |-> EmptyMap,
     content |-> <<>>,
     tag_counts |-> EmptyCounter,
     event_count |-> 0,
     session_names |-> {},
     session_dates |-> EmptyMap,
     min_date |-> None,
     max_date |-> None,
     processed_files_count |-> 0,
     failed_files |-> <<>>]

\* DATACOData.update_stats
update_stats(d) ==
    LET valid_dates == {d.session_dates[s] : s \in DOMAIN d.session_dates}
                          \ {None, datetime_min}
        lo == CHOOSE x \in valid_dates : \A y \in valid_dates : DtLeq(x, y)
        hi == CHOOSE x \in valid_dates : \A y \in valid_dates : DtLeq(y, x)
    IN  [d EXCEPT !.min_date = IF valid_dates # {} THEN lo ELSE None,
                  !.max_date = IF valid_dates # {} THEN hi ELSE None]

\* ------------------------------------------------------------------------
\* load_dataco_data
\* ------------------------------------------------------------------------

\* Mutant of FoldLoad: a task that returned None leaves no trace
FoldLoadDropsFailure(acc, file_path, task_result) ==
    IF task_result.ok
    THEN LET r == acc.result
             s == task_result.session_name
         IN  [result |->
                 [r EXCEPT !.content = r.content \o task_result.lines_content,
                           !.tag_counts = CounterUpdate(r.tag_counts, task_result.tag_counter),
                           !.event_count = r.event_count + Len(task_result.lines_content),
                           !.session_names = r.session_names \cup {s},
                           !.session_dates =
                               IF s \in DOMAIN r.session_dates THEN r.session_dates
                               ELSE MapPut(r.session_dates, s, parse_date_from_session(s))],
              processed_count |-> acc.processed_count + 1]
    ELSE acc

\* Mutant of FoldLoad: event_count is set to the size of the task's content
\* where the loop adds it
FoldLoadSetsCount(acc, file_path, task_result) ==
    IF task_result.ok
    THEN LET r == acc.result
             s == task_result.session_name
         IN  [result |->
                 [r EXCEPT !.content = r.content \o task_result.lines_content,
                           !.tag_counts = CounterUpdate(r.tag_counts, task_result.tag_counter),
                           !.event_count = Len(task_result.lines_content),
                           !.session_names = r.session_names \cup {s},
                           !.session_dates =
                               IF s \in DOMAIN r.session_dates THEN r.session_dates
                               ELSE MapPut(r.session_dates, s, parse_date_from_session(s))],
              processed_count |-> acc.processed_count + 1]
    ELSE [result |-> [acc.result EXCEPT !.failed_files =
                                      Append(acc.result.failed_files, basename(file_path))],
          processed_count |-> acc.processed_count]

\* The body of the as_completed loop of load_dataco_data for one completed
\* future: a result is folded into the aggregate, None (or an exception)
\* appends the base name to failed_files.  acc is [result, processed_count].
FoldLoad(acc, file_path, task_result) ==
    IF task_result.ok
    THEN LET r == acc.result
             s == task_result.session_name
         IN  [result |->
                 [r EXCEPT !.content = r.content \o task_result.lines_content,
                           !.tag_counts = CounterUpdate(r.tag_counts, task_result.tag_counter),
                           !.event_count = r.event_count + Len(task_result.lines_content),
                           !.session_names = r.session_names \cup {s},
                           !.session_dates =
                               IF s \in DOMAIN r.session_dates THEN r.session_dates
                               ELSE MapPut(r.session_dates, s, parse_date_from_session(s))],
              processed_count |-> acc.processed_count + 1]
    ELSE [result |-> [acc.result EXCEPT !.failed_files =
                                      Append(acc.result.failed_files, basename(file_path))],
          processed_count |-> acc.processed_count]

\* load_dataco_data after the pool has shut down: the processed count, the
\* trailer line and the date range
FinishLoad(acc) ==
    LET r1 == [acc.result EXCEPT !.processed_files_count = acc.processed_count]
        r2 == IF r1.processed_files_count > 0
              THEN [r1 EXCEPT !.content = Append(r1.content, TrailerLine)]
              ELSE r1
    IN  update_stats(r2)

\* ------------------------------------------------------------------------
\* process_files_multi_threaded and merge_dataco_results
\* ------------------------------------------------------------------------

\* The body of the as_completed loop of process_files_multi_threaded for one
\* completed future.  acc is [content, tags, event_count].
FoldMerge(acc, task_result) ==
    IF task_result.ok
    THEN [content |-> acc.content \o task_result.lines_content,
          tags |-> CounterUpdate(acc.tags, task_result.tag_counter),
          event_count |-> acc.event_count + Len(task_result.lines_content)]
    ELSE acc

\* process_files_multi_threaded after the pool has shut down: the format
\* line is added when combined_content is non-empty and does not end in one
FinishCombined(acc) ==
    IF acc.content # <<>> /\ ~startswith_format(acc.content[Len(acc.content)])
    THEN [acc EXCEPT !.content = Append(acc.content, TrailerLine)]
    ELSE acc

\* '_'.join(d.dataco_number for d in datasets)
RECURSIVE JoinNumbers(_)
JoinNumbers(datasets) ==
    IF Len(datasets) = 0 THEN <<>>
    ELSE IF Len(datasets) = 1 THEN datasets[1].dataco_number
    ELSE datasets[1].dataco_number \o <<"_">> \o JoinNumbers(Tail(datasets))

\* merge_dataco_results returns None at once: no list, or fewer than two
merge_returns_none(datasets_to_merge) ==
    datasets_to_merge = <<>> \/ Len(datasets_to_merge) < 2

\* merged_number
MergedNumber(datasets) == <<"MERGED", "_">> \o JoinNumbers(datasets)

\* all_files of merge_dataco_results: the set of the inputs' paths
AllFiles(datasets) == UNION {Range(datasets[i].files) : i \in 1..Len(datasets)}

RECURSIVE ConcatFiles(_)
ConcatFiles(datasets) ==
    IF datasets = <<>> THEN <<>> ELSE datasets[1].files \o ConcatFiles(Tail(datasets))

\* Mutant of MergeFileLists: the inputs' file lists are concatenated, a
\* shared path is kept once per input
MergeFileListsConcat(datasets) == {ConcatFiles(datasets)}

\* The lists list(all_files) can be: Python fixes no order for a set
MergeFileLists(datasets) == Orderings(AllFiles(datasets))

\* all_sessions
AllSessions(datasets) == UNION {datasets[i].session_names : i \in 1..Len(datasets)}

\* all_session_dates: dict.update in the order of the inputs
RECURSIVE AllSessionDates(_)
AllSessionDates(datasets) ==
    IF datasets = <<>> THEN EmptyMap
    ELSE MapUpdate(AllSessionDates(SubSeq(datasets, 1, Len(datasets) - 1)),
                   datasets[Len(datasets)].session_dates)

\* project_map of merge_dataco_results: per project, the union of the files
MergedProjectMap(datasets) ==
    LET projs == UNION {DOMAIN datasets[i].project_map : i \in 1..Len(datasets)}
    IN  [proj \in projs |->
            UNION {datasets[i].project_map[proj] :
                      i \in {j \in 1..Len(datasets) : proj \in DOMAIN datasets[j].project_map}}]

\* sum(d.processed_files_count for d in datasets_to_merge)
RECURSIVE SumProcessed(_)
SumProcessed(datasets) ==
    IF datasets = <<>> THEN 0
    ELSE datasets[1].processed_files_count + SumProcessed(Tail(datasets))

\* set(f for d in datasets_to_merge for f in d.failed_files)
AllFailed(datasets) == UNION {Range(datasets[i].failed_files) : i \in 1..Len(datasets)}

\* merge_dataco_results up to the call of process_files_multi_threaded, for
\* one order all_files_list of list(all_files)
BeginMerged(datasets, all_files_list) ==
    [DATACOData(MergedNumber(datasets)) EXCEPT
        !.files = sort_files_by_date_key(all_files_list),
        !.project_map = MergedProjectMap(datasets),
        !.session_names = AllSessions(datasets),
        !.session_dates = AllSessionDates(datasets)]

\* merge_dataco_results after process_files_multi_threaded has returned, for
\* one order failed_list of list(set(...))
FinishMerged(m, acc, datasets, failed_list) ==
    update_stats([m EXCEPT !.content = acc.content,
                           !.tag_counts = acc.tags,
                           !.event_count = acc.event_count,
                           !.processed_files_count = SumProcessed(datasets),
                           !.failed_files = failed_list])

\* ------------------------------------------------------------------------
\* DATACOComparer
\* ------------------------------------------------------------------------

TagKeys(d) == DOMAIN d.tag_counts

\* DATACOComparer._find_common_tags
find_common_tags(datasets) ==
    IF datasets = <<>> THEN {}
    ELSE {t \in TagKeys(datasets[1]) : \A i \in 2..Len(datasets) : t \in TagKeys(datasets[i])}

\* Mutant of find_unique_tags: all_tags is subtracted instead of others_tags
find_unique_tags_all(datasets) ==
    LET all_tags == UNION {TagKeys(datasets[j]) : j \in 1..Len(datasets)}
        last(n) == CHOOSE i \in 1..Len(datasets) :
                      /\ datasets[i].dataco_number = n
                      /\ \A j \in 1..Len(datasets) : datasets[j].dataco_number = n => j <= i
    IN  [n \in {datasets[i].dataco_number : i \in 1..Len(datasets)} |->
            TagKeys(datasets[last(n)]) \ all_tags]

\* DATACOComparer._find_unique_tags: "d != dataset" compares objects by
\* identity, so the others are the other elements of the list; a later
\* dataset with the same number overwrites the entry of an earlier one
find_unique_tags(datasets) ==
    LET unique(i) ==
            TagKeys(datasets[i]) \
                UNION {TagKeys(datasets[j]) : j \in (1..Len(datasets)) \ {i}}
        last(n) == CHOOSE i \in 1..Len(datasets) :
                      /\ datasets[i].dataco_number = n
                      /\ \A j \in 1..Len(datasets) : datasets[j].dataco_number = n => j <= i
    IN  [n \in {datasets[i].dataco_number : i \in 1..Len(datasets)} |-> unique(last(n))]

\* datetime.isoformat(), None kept
isoformat(dt) == IF dt = None THEN None ELSE <<"iso">> \o dt

\* DATACOData.get_stats_dict (lists made from sets are kept as sets)
get_stats_dict(d) ==
    [dataco_number |-> d.dataco_number,
     total_files |-> Len(d.files),
     processed_files |-> d.processed_files_count,
     failed_files |-> Len(d.failed_files),
     session_count |-> Cardinality(d.session_names),
     event_count |-> d.event_count,
     unique_tags |-> Cardinality(DOMAIN d.tag_counts),
     min_date |-> isoformat(d.min_date),
     max_date |-> isoformat(d.max_date),
     tag_counts |-> d.tag_counts,
     sessions |-> d.session_names]

\* Largest number of content lines DATACOData.to_json returns
ContentSampleLimit == 1000

\* DATACOData.to_json: the statistics, the session dates and the content sample
to_json(d) ==
    [stats |-> get_stats_dict(d),
     session_dates |-> [s \in DOMAIN d.session_dates |-> isoformat(d.session_dates[s])],
     content_sample |-> SubSeq(d.content, 1, Min2(Len(d.content), ContentSampleLimit)),
     content_truncated |-> Len(d.content) > ContentSampleLimit]

\* DATACOComparer.get_comparison_data
get_comparison_data(datasets) ==
    [datasets |-> [i \in 1..Len(datasets) |-> datasets[i].dataco_number],
     common_tags |-> find_common_tags(datasets),
     unique_tags |-> find_unique_tags(datasets),
     stats |-> [i \in 1..Len(datasets) |-> get_stats_dict(datasets[i])]]

\* ------------------------------------------------------------------------
\* The sequential revision (src/src/scripts/DC_Jumps.py)
\* ------------------------------------------------------------------------

\* find_dataco_files: glob "<base_dir>/**/*DATACO-<n>.jump", recursive, so
\* the files at any depth; nothing when base_dir is no directory
seq_find_dataco_files(dataco_number, dir_exists, files_present) ==
    IF ~dir_exists THEN {}
    ELSE {p \in files_present : GlobMatch(dataco_number, p.name)}

\* The sequential extract_tag_from_line: ' '.join(parts[3:]), the fields from
\* the fourth on, as a line with single blanks; NoLine when there are fewer
\* than 4 fields
NoLine == <<>>

RECURSIVE JoinWords(_)
JoinWords(words) ==
    IF Len(words) = 0 THEN <<>>
    ELSE IF Len(words) = 1 THEN <<words[1]>>
    ELSE <<words[1], " ">> \o JoinWords(Tail(words))

seq_extract_tag_from_line(line) ==
    LET parts == split(strip(line))
    IN  IF Len(parts) < 4 THEN NoLine ELSE JoinWords(SubSeq(parts, 4, Len(parts)))

\* filename.split("_DATACO-<n>")[0]: what precedes the first "_DATACO-<n>"
\* in the base name, the whole base name when there is none
seq_session_name(name, dataco_number) ==
    LET sep == <<"DATACO-">> \o dataco_number
        hits == {j \in 2..Len(name) :
                    Len(name[j]) >= Len(sep) /\ SubSeq(name[j], 1, Len(sep)) = sep}
    IN  IF hits = {} THEN name
        ELSE SubSeq(name, 1, (CHOOSE j \in hits : \A h \in hits : j <= h) - 1)

\* The lines a file of the universe yields to "for line in f" under
\* encoding='utf-8': all of them, or none when open() raises or the first
\* read raises UnicodeDecodeError (the files are shorter than one read)
seq_readable_lines(file_path) ==
    IF Universe[file_path].enc = "utf-8" THEN Universe[file_path].lines ELSE <<>>

\* The lines load_dataco and merge_datacos append for one file
RECURSIVE seq_content(_)
seq_content(lines) ==
    IF lines = <<>> THEN <<>>
    ELSE LET rest == seq_content(SubSeq(lines, 1, Len(lines) - 1))
             line == lines[Len(lines)]
         IN  IF KeepLine(line) THEN Append(rest, strip(line)) ELSE rest

\* The tags load_dataco and merge_datacos count for one file, added to counter
RECURSIVE seq_count_tags(_, _)
seq_count_tags(counter, lines) ==
    IF lines = <<>> THEN counter
    ELSE LET rest == seq_count_tags(counter, SubSeq(lines, 1, Len(lines) - 1))
             line == lines[Len(lines)]
             tag == seq_extract_tag_from_line(strip(line))
         IN  IF KeepLine(line) /\ tag # NoLine THEN CounterInc(rest, tag) ELSE rest

\* The file loop of load_dataco over the list files: all_content
RECURSIVE seq_all_content(_)
seq_all_content(files) ==
    IF files = <<>> THEN <<>>
    ELSE seq_all_content(SubSeq(files, 1, Len(files) - 1))
            \o seq_content(seq_readable_lines(files[Len(files)]))

\* The file loop of load_dataco over the list files: tag_counter
RECURSIVE seq_tag_counter(_)
seq_tag_counter(files) ==
    IF files = <<>> THEN EmptyCounter
    ELSE seq_count_tags(seq_tag_counter(SubSeq(files, 1, Len(files) - 1)),
                        seq_readable_lines(files[Len(files)]))

\* Largest number of content lines load_dataco returns
SeqSampleLimit == 100

\* load_dataco for the list files that find_dataco_files returned, on day
\* today of the month.  kind "seq_error" is the dictionary with "error";
\* kind "exception" is the ValueError of yesterday.replace(day=0), which
\* nothing in load_dataco catches.
load_dataco(dataco_number, files, today) ==
    IF files = <<>>
    THEN [kind |-> "seq_error", success |-> FALSE, error |-> "No files found"]
    ELSE IF today - 1 < 1
    THEN [kind |-> "exception", error |-> "ValueError: day is out of range for month"]
    ELSE LET all_content == seq_all_content(files)
             tag_counter == seq_tag_counter(files)
             session_names ==
                 {seq_session_name(basename(files[i]), dataco_number) : i \in 1..Len(files)}
         IN  [kind |-> "seq_data",
              dataco_number |-> dataco_number,
              total_files |-> Len(files),
              processed_files |-> Len(files),
              failed_files |-> 0,
              session_count |-> Cardinality(session_names),
              event_count |-> Len(all_content),
              unique_tags |-> Cardinality(DOMAIN tag_counter),
              min_date |-> <<"iso", "now", today - 1>>,
              max_date |-> <<"iso", "now", today>>,
              tag_counts |-> tag_counter,
              sessions |-> session_names,
              content_sample |-> SubSeq(all_content, 1, Min2(Len(all_content), SeqSampleLimit)),
              content_truncated |-> Len(all_content) > SeqSampleLimit]

\* The loop of the sequential compare_datacos over the loaded results:
\* the indices of the results without "error"
SeqValid(loaded) == SelectSeq([i \in 1..Len(loaded) |-> i],
                              LAMBDA i : loaded[i].kind # "seq_error")

\* The sequential compare_datacos, given load_dataco's result for each id
seq_compare(dataco_numbers, loaded) ==
    IF Len(dataco_numbers) < 2
    THEN [kind |-> "seq_error", success |-> FALSE,
          error |-> "At least two DATACO numbers are required for comparison"]
    ELSE IF \E i \in 1..Len(loaded) : loaded[i].kind = "exception"
    THEN [kind |-> "exception", error |-> "ValueError: day is out of range for month"]
    ELSE LET valid == SeqValid(loaded)
             n == Len(valid)
             stats == [i \in 1..n |-> loaded[valid[i]]]
             dsets == [i \in 1..n |-> dataco_numbers[valid[i]]]
             keys(i) == DOMAIN stats[i].tag_counts
             common_tags ==
                 IF n = 0 THEN {}
                 ELSE {t \in keys(1) : \A i \in 2..n : t \in keys(i)}
             unique(i) == keys(i) \ UNION {keys(j) : j \in (1..n) \ {i}}
             last(d) == CHOOSE i \in 1..n :
                           dsets[i] = d /\ \A j \in 1..n : dsets[j] = d => j <= i
         IN  [kind |-> "seq_comparison",
              datasets |-> dsets,
              common_tags |-> common_tags,
              unique_tags |-> [d \in Range(dsets) |-> unique(last(d))],
              stats |-> stats]

\* The date merge_datacos reads off a base name: the first part of
\* filename.split('_') that is 6 digits long is taken as YYMMDD and passed to
\* datetime(year, month, day); None when no part is 6 digits or datetime()
\* raises ValueError (caught, the loop over the parts ends there)
seq_file_date(name) ==
    LET hits == {j \in 1..Len(name) : Len(name[j]) = 6 /\ isdigit(name[j])}
    IN  IF hits = {} THEN None
        ELSE LET part == name[CHOOSE j \in hits : \A h \in hits : j <= h]
                 year == 2000 + TwoDigits(part, 1)
                 month == TwoDigits(part, 3)
                 day == TwoDigits(part, 5)
             IN  IF month \in 1..12 /\ day >= 1 /\ day <= DaysInMonth(year, month)
                 THEN <<year, month, day, 0, 0, 0>>
                 ELSE None

\* all_files of merge_datacos: what find_dataco_files returned for each id,
\* one list after the other (all_files.extend(files))
RECURSIVE seq_all_files(_)
seq_all_files(lists) ==
    IF lists = <<>> THEN <<>>
    ELSE seq_all_files(SubSeq(lists, 1, Len(lists) - 1)) \o lists[Len(lists)]

\* dates of merge_datacos: the dates of the files that were read to their
\* end and whose name holds a date
seq_merge_dates(all_files) ==
    {seq_file_date(basename(all_files[i])) :
        i \in {j \in 1..Len(all_files) : Universe[all_files[j]].enc = "utf-8"}} \ {None}

\* session_names of merge_datacos: each file's base name cut at the
\* "_DATACO-<n>" of the id it was found for
seq_merge_sessions(dataco_numbers, lists) ==
    UNION {{seq_session_name(basename(lists[i][j]), dataco_numbers[i]) :
               j \in 1..Len(lists[i])} : i \in 1..Len(lists)}

\* The sequential merge_datacos, given what find_dataco_files returned for
\* each id, on day today of the month.  kind "exception" is the ValueError
\* of datetime.now().replace(day=0), which nothing in merge_datacos catches.
seq_merge(dataco_numbers, lists, today) ==
    IF Len(dataco_numbers) < 2
    THEN [kind |-> "seq_error", success |-> FALSE,
          error |-> "At least two DATACO numbers are required for merging"]
    ELSE LET all_files == seq_all_files(lists)
             all_content == seq_all_content(all_files)
             tag_counter == seq_tag_counter(all_files)
             session_names == seq_merge_sessions(dataco_numbers, lists)
             dates == seq_merge_dates(all_files)
             processed_files ==
                 Cardinality({i \in 1..Len(all_files) : Universe[all_files[i]].enc = "utf-8"})
         IN  IF all_content = <<>>
             THEN [kind |-> "seq_error", success |-> FALSE,
                   error |-> "No content found in any of the DATACO files"]
             ELSE IF dates = {} /\ today - 1 < 1
             THEN [kind |-> "exception", error |-> "ValueError: day is out of range for month"]
             ELSE [kind |-> "seq_data",
                   success |-> TRUE,
                   dataco_number |-> <<"MERGED">> \o dataco_numbers,
                   total_files |-> Len(all_files),
                   processed_files |-> processed_files,
                   failed_files |-> Len(all_files) - processed_files,
                   session_count |-> Cardinality(session_names),
                   event_count |-> Len(all_content),
                   unique_tags |-> Cardinality(DOMAIN tag_counter),
                   min_date |-> IF dates = {} THEN <<"iso", "now", today - 1>>
                                ELSE isoformat(CHOOSE x \in dates : \A y \in dates : DtLeq(x, y)),
                   max_date |-> IF dates = {} THEN <<"iso", "now", today>>
                                ELSE isoformat(CHOOSE x \in dates : \A y \in dates : DtLeq(y, x)),
                   tag_counts |-> tag_counter,
                   sessions |-> session_names,
                   content_sample |-> SubSeq(all_content, 1, Min2(Len(all_content), SeqSampleLimit)),
                   content_truncated |-> Len(all_content) > SeqSampleLimit,
                   all_content |-> Append(all_content, TrailerLine)]

\* ------------------------------------------------------------------------
\* State
\* ------------------------------------------------------------------------

VARIABLES
    base_exists,      \* base_dir exists
    present,          \* the paths of the universe that exist under base_dir
    pc,               \* "idle", "iter" (between two loads of a request),
                      \* "load" (as_completed loop of load_dataco_data),
                      \* "merge" (as_completed loop of process_files_multi_threaded),
                      \* "done"
    req,              \* the API call being served: [action, ids]
    k,                \* index in req.ids of the next dataset to load
    result,           \* load_dataco_data: result
    processed_count,  \* load_dataco_data: processed_count
    pending,          \* indices in the file list of the futures not yet folded
    datasets,         \* compare_datacos / merge_datacos: datasets
    merged,           \* merge_dataco_results: merged_data
    combined,         \* process_files_multi_threaded: combined_content,
                      \* combined_tags, event_count
    returned,         \* which function returned an aggregate last: "none",
                      \* "load" (it is result) or "merge" (it is merged)
    ret,              \* the value the API call returned
    cname,            \* name codec: a base name
    csession,         \* name codec: extract_session_name of it
    cdate,            \* name codec: parse_date_from_session of the session
    ckey,             \* name codec: get_date_key_for_sort of it
    cpc               \* name codec: "name", "session", "parsed", "keyed"; "off"

fsvars == <<base_exists, present>>

apivars == <<pc, req, k, result, processed_count, pending, datasets, merged, combined,
             returned, ret>>

codecvars == <<cname, csession, cdate, ckey, cpc>>

vars == <<fsvars, apivars, codecvars>>

NoRequest == [action |-> "none", ids |-> <<>>]

NoCombined == [content |-> <<>>, tags |-> EmptyCounter, event_count |-> 0]

NoReturn == [kind |-> "none"]

ApiIdle ==
    /\ pc = "idle"
    /\ req = NoRequest
    /\ k = 1
    /\ result = DATACOData(<<>>)
    /\ processed_count = 0
    /\ pending = {}
    /\ datasets = <<>>
    /\ merged = DATACOData(<<>>)
    /\ combined = NoCombined
    /\ returned = "none"
    /\ ret = NoReturn

CodecOff ==
    /\ cname = <<>>
    /\ csession = None
    /\ cdate = None
    /\ ckey = datetime_min
    /\ cpc = "off"

\* The file systems: base_dir missing, or present with at most MaxFiles files
Init ==
    /\ base_exists \in BOOLEAN
    /\ present \in {S \in SUBSET Paths : Cardinality(S) <= MaxFiles}
    /\ (~base_exists => present = {})
    /\ ApiIdle
    /\ CodecOff

\* ------------------------------------------------------------------------
\* The API of the worker-pool revision
\* ------------------------------------------------------------------------

\* get_dataco_data(number), compare_datacos(ids) or merge_datacos(ids) is called
Call(action, ids) ==
    /\ pc = "idle"
    /\ req' = [action |-> action, ids |-> ids]
    /\ pc' = "iter"
    /\ UNCHANGED <<k, result, processed_count, pending, datasets, merged, combined,
                   returned, ret>>
    /\ UNCHANGED <<fsvars, codecvars>>

\* Mutant of fewer_than_two: one dataset is enough
fewer_than_one(loaded) == Len(loaded) < 1

\* "if len(datasets) < 2" of compare_datacos and merge_datacos
fewer_than_two(loaded) == Len(loaded) < 2

\* load_dataco_data returns r to its caller: get_dataco_data returns
\* r.to_json(); the loops of compare_datacos and merge_datacos keep r when it
\* has files and go on to the next id
ReturnFromLoad(r) ==
    /\ result' = r
    /\ returned' = "load"
    /\ processed_count' = 0
    /\ pending' = {}
    /\ IF req.action = "load"
       THEN /\ ret' = [kind |-> "data", data |-> to_json(r)]
            /\ pc' = "done"
            /\ UNCHANGED <<k, datasets>>
       ELSE /\ datasets' = IF r.files # <<>> THEN Append(datasets, r) ELSE datasets
            /\ k' = k + 1
            /\ pc' = "iter"
            /\ UNCHANGED ret
    /\ UNCHANGED <<req, merged, combined>>
    /\ UNCHANGED <<fsvars, codecvars>>

\* load_dataco_data finds no base directory or no file: the empty result
LoadNothing ==
    /\ pc = "iter"
    /\ k <= Len(req.ids)
    /\ LET dataco_number == req.ids[k]
           found == FoundFiles(dataco_number, present)
       IN  /\ ~base_exists \/ found = {}
           /\ ReturnFromLoad(DATACOData(dataco_number))

\* load_dataco_data finds files, sorts them and submits one task per file
LoadDispatch ==
    /\ pc = "iter"
    /\ k <= Len(req.ids)
    /\ base_exists
    /\ LET dataco_number == req.ids[k]
           found == FoundFiles(dataco_number, present)
       IN  /\ found # {}
           /\ \E all_files \in GlobOrders(found) :
                 result' = [DATACOData(dataco_number) EXCEPT
                               !.files = sort_files_by_date_key(all_files),
                               !.project_map = ProjectMapOf(found)]
    /\ pending' = 1..Len(result'.files)
    /\ processed_count' = 0
    /\ returned' = "none"
    /\ pc' = "load"
    /\ UNCHANGED <<req, k, datasets, merged, combined, ret>>
    /\ UNCHANGED <<fsvars, codecvars>>

\* A future of load_dataco_data completes and its result is folded
LoadFold(i) ==
    /\ pc = "load"
    /\ i \in pending
    /\ \E task_result \in {process_file_task(result.files[i])} :
          \E acc \in {FoldLoad([result |-> result, processed_count |-> processed_count],
                               result.files[i], task_result)} :
             /\ result' = acc.result
             /\ processed_count' = acc.processed_count
    /\ pending' = pending \ {i}
    /\ UNCHANGED <<pc, req, k, datasets, merged, combined, returned, ret>>
    /\ UNCHANGED <<fsvars, codecvars>>

\* Mutant of as_completed_exhausted: the loop does not wait for the last future
as_completed_stops_early(remaining) == Cardinality(remaining) <= 1

\* "for future in concurrent.futures.as_completed(future_to_file)" ends, and
\* the "with ThreadPoolExecutor" block is left, when no future remains
as_completed_exhausted(remaining) == remaining = {}

\* Every future is folded: load_dataco_data finishes and returns
LoadEnd ==
    /\ pc = "load"
    /\ as_completed_exhausted(pending)
    /\ ReturnFromLoad(FinishLoad([result |-> result, processed_count |-> processed_count]))

\* compare_datacos after its loads: the error, or the comparison
CompareEnd ==
    /\ pc = "iter"
    /\ req.action = "compare"
    /\ k > Len(req.ids)
    /\ ret' = IF fewer_than_two(datasets)
              THEN [kind |-> "error",
                    error |-> "Need at least two valid DATACO datasets to compare"]
              ELSE [kind |-> "comparison", data |-> get_comparison_data(datasets)]
    /\ pc' = "done"
    /\ UNCHANGED <<req, k, result, processed_count, pending, datasets, merged, combined,
                   returned>>
    /\ UNCHANGED <<fsvars, codecvars>>

\* merge_datacos after its loads returns an error: its own for fewer than
\* two datasets, or "Failed to merge datasets" when merge_dataco_results
\* returns None
MergeRefused ==
    /\ pc = "iter"
    /\ req.action = "merge"
    /\ k > Len(req.ids)
    /\ fewer_than_two(datasets) \/ merge_returns_none(datasets)
    /\ ret' = IF fewer_than_two(datasets)
              THEN [kind |-> "error",
                    error |-> "Need at least two valid DATACO datasets to merge"]
              ELSE [kind |-> "error", error |-> "Failed to merge datasets"]
    /\ pc' = "done"
    /\ UNCHANGED <<req, k, result, processed_count, pending, datasets, merged, combined,
                   returned>>
    /\ UNCHANGED <<fsvars, codecvars>>

\* merge_datacos calls merge_dataco_results, which unites the inputs and
\* has process_files_multi_threaded submit one task per file
MergeDispatch ==
    /\ pc = "iter"
    /\ req.action = "merge"
    /\ k > Len(req.ids)
    /\ ~fewer_than_two(datasets)
    /\ ~merge_returns_none(datasets)
    /\ \E all_files_list \in MergeFileLists(datasets) :
          merged' = BeginMerged(datasets, all_files_list)
    /\ pending' = 1..Len(merged'.files)
    /\ combined' = NoCombined
    /\ returned' = "none"
    /\ pc' = "merge"
    /\ UNCHANGED <<req, k, result, processed_count, datasets, ret>>
    /\ UNCHANGED <<fsvars, codecvars>>

\* A future of process_files_multi_threaded completes and its result is folded
MergeFold(i) ==
    /\ pc = "merge"
    /\ i \in pending
    /\ \E task_result \in {process_file_task(merged.files[i])} :
          combined' = FoldMerge(combined, task_result)
    /\ pending' = pending \ {i}
    /\ UNCHANGED <<pc, req, k, result, processed_count, datasets, merged, returned, ret>>
    /\ UNCHANGED <<fsvars, codecvars>>

\* Every future is folded: process_files_multi_threaded returns,
\* merge_dataco_results finishes and merge_datacos returns its to_json()
MergeEnd ==
    /\ pc = "merge"
    /\ as_completed_exhausted(pending)
    /\ \E failed_list \in Orderings(AllFailed(datasets)) :
          merged' = FinishMerged(merged, FinishCombined(combined), datasets, failed_list)
    /\ combined' = FinishCombined(combined)
    /\ returned' = "merge"
    /\ ret' = [kind |-> "data", data |-> to_json(merged')]
    /\ pc' = "done"
    /\ UNCHANGED <<req, k, result, processed_count, pending, datasets>>
    /\ UNCHANGED <<fsvars, codecvars>>

\* ------------------------------------------------------------------------
\* The commands of the sequential revision
\* ------------------------------------------------------------------------

\* Days of the month on which a command may run
TodayDays == {1, 15}

\* The lists find_dataco_files can return for each id of ids: glob fixes no order
RECURSIVE SeqFileLists(_)
SeqFileLists(ids) ==
    IF ids = <<>> THEN {<<>>}
    ELSE LET n == Len(ids)
             found == seq_find_dataco_files(ids[n], base_exists, present)
         IN  {Append(lists, files) : lists \in SeqFileLists(SubSeq(ids, 1, n - 1)),
                                     files \in Orderings(found)}

\* --action load of the sequential revision with one id
SeqLoad(dataco_number, today) ==
    /\ pc = "idle"
    /\ \E lists \in SeqFileLists(<<dataco_number>>) :
          ret' = load_dataco(dataco_number, lists[1], today)
    /\ req' = [action |-> "seq_load", ids |-> <<dataco_number>>]
    /\ pc' = "done"
    /\ UNCHANGED <<k, result, processed_count, pending, datasets, merged, combined, returned>>
    /\ UNCHANGED <<fsvars, codecvars>>

\* --action compare of the sequential revision
SeqCompare(ids, today) ==
    /\ pc = "idle"
    /\ \E lists \in SeqFileLists(ids) :
          ret' = seq_compare(ids, [i \in 1..Len(ids) |-> load_dataco(ids[i], lists[i], today)])
    /\ req' = [action |-> "seq_compare", ids |-> ids]
    /\ pc' = "done"
    /\ UNCHANGED <<k, result, processed_count, pending, datasets, merged, combined, returned>>
    /\ UNCHANGED <<fsvars, codecvars>>

\* --action merge of the sequential revision
SeqMerge(ids, today) ==
    /\ pc = "idle"
    /\ \E lists \in SeqFileLists(ids) :
          ret' = seq_merge(ids, lists, today)
    /\ req' = [action |-> "seq_merge", ids |-> ids]
    /\ pc' = "done"
    /\ UNCHANGED <<k, result, processed_count, pending, datasets, merged, combined, returned>>
    /\ UNCHANGED <<fsvars, codecvars>>

Next ==
    \/ \E number \in Ids : Call("load", <<number>>)
    \/ \E ids \in IdLists : Call("compare", ids)
    \/ \E ids \in IdLists : Call("merge", ids)
    \/ LoadNothing
    \/ LoadDispatch
    \/ \E i \in pending : LoadFold(i)
    \/ LoadEnd
    \/ CompareEnd
    \/ MergeRefused
    \/ MergeDispatch
    \/ \E i \in pending : MergeFold(i)
    \/ MergeEnd
    \/ \E number \in Ids, today \in TodayDays : SeqLoad(number, today)
    \/ \E ids \in IdLists, today \in TodayDays : SeqCompare(ids, today)
    \/ \E ids \in IdLists, today \in TodayDays : SeqMerge(ids, today)

Spec == Init /\ [][Next]_vars

\* A step of the worker pool and the loop that folds its results: a
\* submitted task runs to its end and as_completed yields its future
PoolStep ==
    \/ \E i \in pending : LoadFold(i)
    \/ \E i \in pending : MergeFold(i)

\* The API under fair scheduling: the pool and the folding loop go on while
\* a future remains, and the function returns once the loop has ended
SpecFair ==
    /\ Init
    /\ [][Next]_vars
    /\ WF_vars(PoolStep)
    /\ WF_vars(LoadEnd)
    /\ WF_vars(MergeEnd)

\* ------------------------------------------------------------------------
\* The name codec on its own: base names drawn from tokens
\* ------------------------------------------------------------------------

T_095047x == <<"0", "9", "5", "0", "4", "7", "x">>
T_12345 == <<"1", "2", "3", "4", "5">>

\* Tokens of a session name
CodecTokens == {T_S1, T_250108, T_250230, T_095047, T_095047x, T_12345, <<>>}

\* What follows the session name in a base name
CodecTails ==
    {<<T_x, DatacoTail(Id1)>>,
     <<DatacoTail(Id1)>>,
     <<<<>>, DatacoTail(Id1)>>,
     <<T_x, <<"y">> \o DatacoTail(Id1)>>,
     <<T_x, DatacoTail(<<"a">>)>>}

\* The base names: at most MaxParts tokens, then a tail
CodecNames == {pre \o tail : pre \in SeqsUpTo(CodecTokens, MaxParts), tail \in CodecTails}

CodecPath == [dir |-> <<"P1">>, name |-> cname]

InitCodec ==
    /\ base_exists = TRUE
    /\ present = {}
    /\ ApiIdle
    /\ cname \in CodecNames
    /\ csession = None
    /\ cdate = None
    /\ ckey = datetime_min
    /\ cpc = "name"

\* extract_session_name is applied to the name
CodecExtract ==
    /\ cpc = "name"
    /\ csession' = extract_session_name(CodecPath)
    /\ cpc' = "session"
    /\ UNCHANGED <<cname, cdate, ckey>>
    /\ UNCHANGED <<fsvars, apivars>>

\* parse_date_from_session is applied to the session name, as its callers
\* do: only to a name that is neither None nor empty
CodecParse ==
    /\ cpc = "session"
    /\ Truthy(csession)
    /\ cdate' = parse_date_from_session(csession)
    /\ cpc' = "parsed"
    /\ UNCHANGED <<cname, csession, ckey>>
    /\ UNCHANGED <<fsvars, apivars>>

\* get_date_key_for_sort is applied to the name
CodecSortKey ==
    /\ cpc \in {"session", "parsed"}
    /\ ckey' = get_date_key_for_sort(CodecPath)
    /\ cpc' = "keyed"
    /\ UNCHANGED <<cname, csession, cdate>>
    /\ UNCHANGED <<fsvars, apivars>>

NextCodec ==
    \/ CodecExtract
    \/ CodecParse
    \/ CodecSortKey

SpecCodec == InitCodec /\ [][NextCodec]_vars

\* ------------------------------------------------------------------------
\* Properties
\* ------------------------------------------------------------------------

RECURSIVE SeqSum(_)
SeqSum(ns) == IF ns = <<>> THEN 0 ELSE ns[1] + SeqSum(Tail(ns))

\* What the task of each path of the universe returns when it runs one time
TaskOnce == [p \in Paths |-> process_file_task(p)]

\* The task of a file succeeds: its name yields a session and it can be read
TaskOk(p) == TaskOnce[p].ok

\* The number of lines a file contributes when it is processed one time
LinesOnce(p) == IF TaskOk(p) THEN Len(TaskOnce[p].lines_content) ELSE 0

\* The number of lines with tag t a file contributes when processed one time
TagOnce(p, t) == IF TaskOk(p) THEN CounterGet(TaskOnce[p].tag_counter, t) ELSE 0

\* The tags of the files of S
TagsOf(S) == UNION {DOMAIN TaskOnce[p].tag_counter : p \in {q \in S : TaskOk(q)}}

\* The paths of the inputs of the merge
InputPaths == UNION {Range(datasets[i].files) : i \in 1..Len(datasets)}

\* Two inputs of the merge share a path
InputsShareFile ==
    \E i, j \in 1..Len(datasets) :
        i < j /\ Range(datasets[i].files) \cap Range(datasets[j].files) # {}

\* No two inputs of the merge share a path
InputsDisjoint == ~InputsShareFile

\* C1: when merge_dataco_results has returned and two of its inputs share a
\* file, the merged event_count and tag_counts are the totals of processing
\* each path of the union of the inputs' files one time.
C1_MergeCountsSharedOnce ==
    (returned = "merge" /\ InputsShareFile) =>
        /\ merged.event_count = SumOver(InputPaths, [p \in InputPaths |-> LinesOnce(p)])
        /\ DOMAIN merged.tag_counts = TagsOf(InputPaths)
        /\ \A t \in TagsOf(InputPaths) :
              merged.tag_counts[t] = SumOver(InputPaths, [p \in InputPaths |-> TagOnce(p, t)])

\* C1 witness: a merge of inputs that overlap in part, whose own event
\* counts add up to more than the merged count
C1_Witness ==
    /\ returned = "merge"
    /\ InputsShareFile
    /\ \E i, j \in 1..Len(datasets) : Range(datasets[i].files) # Range(datasets[j].files)
    /\ merged.event_count > 0
    /\ SeqSum([i \in 1..Len(datasets) |-> datasets[i].event_count]) > merged.event_count

\* C2: when merge_dataco_results has returned and its inputs have pairwise
\* disjoint files, the merged tag_counts is the tag-by-tag sum of the inputs'
\* tag_counts, and the merged files are the union of the inputs' paths, each
\* one time.
C2_DisjointMergeAddsTags ==
    (returned = "merge" /\ InputsDisjoint) =>
        /\ DOMAIN merged.tag_counts = UNION {DOMAIN datasets[i].tag_counts : i \in 1..Len(datasets)}
        /\ \A t \in DOMAIN merged.tag_counts :
              merged.tag_counts[t] =
                  SeqSum([i \in 1..Len(datasets) |-> CounterGet(datasets[i].tag_counts, t)])
        /\ Range(merged.files) = InputPaths
        /\ \A a, b \in 1..Len(merged.files) : a # b => merged.files[a] # merged.files[b]

\* C2 witness: a merge of two disjoint inputs that have a tag in common
C2_Witness ==
    /\ returned = "merge"
    /\ Len(datasets) = 2
    /\ InputsDisjoint
    /\ \E t \in DOMAIN datasets[1].tag_counts \cap DOMAIN datasets[2].tag_counts :
          merged.tag_counts[t] >= 2

\* The content ends in the trailer line
EndsInTrailer(content) == content # <<>> /\ content[Len(content)] = TrailerLine

\* C3: a run that processed at least one file has the trailer line at the
\* end of content, in load_dataco_data and in the run merge_dataco_results
\* makes through process_files_multi_threaded.
C3_TrailerWheneverProcessed ==
    /\ returned = "load" =>
          ((\E i \in 1..Len(result.files) : TaskOk(result.files[i]))
              => EndsInTrailer(result.content))
    /\ returned = "merge" =>
          ((\E i \in 1..Len(merged.files) : TaskOk(merged.files[i]))
              => EndsInTrailer(merged.content))

\* A line that starts with "#format:" is the last line of content
FormatOnlyLast(content) ==
    \A i \in 1..Len(content) : startswith_format(content[i]) => i = Len(content)

\* C4: in every aggregate load_dataco_data or merge_dataco_results returns, a
\* line starting with "#format:" occurs in content at most once, and then as
\* the last element.
C4_FormatLineOnlyLast ==
    /\ returned = "load" => FormatOnlyLast(result.content)
    /\ returned = "merge" => FormatOnlyLast(merged.content)

\* C4 witness: a merge over a processed file that holds a format line and a
\* skipped file, with content lines before the trailer
C4_Witness ==
    /\ returned = "merge"
    /\ Len(merged.content) >= 3
    /\ EndsInTrailer(merged.content)
    /\ \E i \in 1..Len(merged.files) : ~TaskOk(merged.files[i])
    /\ \E i \in 1..Len(merged.files) :
          /\ TaskOk(merged.files[i])
          /\ \E n \in 1..Len(Universe[merged.files[i]].lines) :
                startswith_format(strip(Universe[merged.files[i]].lines[n]))

\* C5: when load_dataco_data returns, every file is folded once, as
\* processed or as failed: the two counts add up to the number of files,
\* failed_files holds the base names of the files whose task returned None,
\* each as often as such a file has it, and the succeeding files are all
\* folded.
C5_EveryFileFoldedOnce ==
    returned = "load" =>
        LET n == Len(result.files)
            ok == {i \in 1..n : TaskOk(result.files[i])}
            bad == (1..n) \ ok
        IN  /\ result.processed_files_count + Len(result.failed_files) = n
            /\ result.processed_files_count = Cardinality(ok)
            /\ Range(result.failed_files) = {basename(result.files[i]) : i \in bad}
            /\ \A nm \in Range(result.failed_files) :
                  Cardinality({j \in 1..Len(result.failed_files) : result.failed_files[j] = nm})
                      = Cardinality({i \in bad : basename(result.files[i]) = nm})
            /\ result.session_names = {extract_session_name(result.files[i]) : i \in ok}
            /\ result.event_count = SeqSum([i \in 1..n |-> LinesOnce(result.files[i])])

\* C5 witness: a load with a processed file and a failed file
C5_Witness ==
    /\ returned = "load"
    /\ result.processed_files_count >= 1
    /\ Len(result.failed_files) >= 1

\* The session name extract_session_name gives for each path of the universe
SessionOf == [p \in Paths |-> extract_session_name(p)]

\* The base name fits '<session>_<suffix>_DATACO-<id>.jump' with a session
NameFitsPattern(p) == Truthy(SessionOf[p])

\* C6: a file whose name does not fit the session-name pattern is left out
\* of the counts and the sessions of the aggregate load_dataco_data returns
\* and its base name is not in failed_files.
C6_MismatchNotFailed ==
    returned = "load" =>
        \A i \in 1..Len(result.files) :
            ~NameFitsPattern(result.files[i]) =>
                /\ basename(result.files[i]) \notin Range(result.failed_files)
                /\ result.event_count =
                      SeqSum([j \in 1..Len(result.files) |->
                                 IF NameFitsPattern(result.files[j])
                                 THEN LinesOnce(result.files[j]) ELSE 0])

\* The numbers of the list are pairwise distinct
DistinctNumbers(numbers) ==
    \A i, j \in 1..Len(numbers) : i # j => numbers[i] # numbers[j]

\* C7: for two or more aggregates with pairwise distinct ids, common_tags
\* is the intersection of the tag-key sets, and unique_tags of an aggregate
\* is its tag-key set minus the tag-key sets of all the others; in the
\* comparer of the worker-pool revision and in that of the sequential one.
C7_CompareSetAlgebra ==
    /\ (ret.kind = "comparison"
            /\ DistinctNumbers([i \in 1..Len(datasets) |-> datasets[i].dataco_number])) =>
          LET n == Len(datasets)
              keys(i) == DOMAIN datasets[i].tag_counts
              all == UNION {keys(i) : i \in 1..n}
          IN  /\ n >= 2
              /\ ret.data.common_tags = {t \in all : \A i \in 1..n : t \in keys(i)}
              /\ \A i \in 1..n :
                    ret.data.unique_tags[datasets[i].dataco_number] =
                        {t \in keys(i) : \A j \in 1..n : j # i => t \notin keys(j)}
    /\ (ret.kind = "seq_comparison" /\ Len(ret.datasets) >= 2
            /\ DistinctNumbers(ret.datasets)) =>
          LET n == Len(ret.datasets)
              keys(i) == DOMAIN ret.stats[i].tag_counts
              all == UNION {keys(i) : i \in 1..n}
          IN  /\ ret.common_tags = {t \in all : \A i \in 1..n : t \in keys(i)}
              /\ \A i \in 1..n :
                    ret.unique_tags[ret.datasets[i]] =
                        {t \in keys(i) : \A j \in 1..n : j # i => t \notin keys(j)}

\* C7 witness: the comparison of tag sets {a, b} and {b, c}
C7_Witness ==
    /\ ret.kind = "comparison"
    /\ Len(datasets) = 2
    /\ DOMAIN datasets[1].tag_counts = {"a", "b"}
    /\ DOMAIN datasets[2].tag_counts = {"b", "c"}
    /\ ret.data.common_tags = {"b"}
    /\ ret.data.unique_tags[datasets[1].dataco_number] = {"a"}
    /\ ret.data.unique_tags[datasets[2].dataco_number] = {"c"}

\* The requested ids, by position, that have at least one matching file
IdsWithFiles ==
    {i \in 1..Len(req.ids) : base_exists /\ FoundFiles(req.ids[i], present) # {}}

\* C8: in compare_datacos and merge_datacos, when fewer than two of the
\* requested ids have a matching file, no merge is started and the call
\* returns an error result, not a comparison or a merged aggregate;
\* merge_dataco_results returns None for every list of fewer than two
\* aggregates the loads produce.
C8_TooFewIsAnError ==
    /\ (req.action \in {"compare", "merge"} /\ Cardinality(IdsWithFiles) < 2) =>
          /\ pc # "merge"
          /\ returned # "merge"
          /\ pc = "done" => ret.kind = "error"
    /\ (req.action \in {"compare", "merge"} /\ Len(datasets) < 2) =>
          merge_returns_none(datasets)

\* C8 witness: a merge of two ids of which one has files has returned
C8_Witness ==
    /\ pc = "done"
    /\ req.action = "merge"
    /\ Len(req.ids) = 2
    /\ Cardinality(IdsWithFiles) = 1
    /\ ret.kind = "error"

\* C9: parse_date_from_session returns None when the first YYMMDD/HHMMSS
\* token pair of the session name is no valid date-time, and the timestamp
\* of the pair when it is one, also when the pair is the whole session name.
C9_FirstPairDecides ==
    cpc = "parsed" =>
        LET i == FirstDateTimeIndex(csession)
        IN  i # 0 => cdate = strptime12(csession[i] \o SubSeq(csession[i + 1], 1, 6))

\* The timestamp parse_date_from_session derives from the session name of
\* each path of the universe; None when the name yields no session
TimestampOf ==
    [p \in Paths |-> IF NameFitsPattern(p) THEN parse_date_from_session(SessionOf[p])
                     ELSE None]

\* The file has a session name with a valid date
HasValidDate(p) == TimestampOf[p] # None

\* The timestamp derived from the session name of the file
DerivedTimestamp(p) == TimestampOf[p]

\* The list holds each path of S one time, in non-decreasing order of the
\* derived timestamp, the files without a valid date first
SortedFilesOf(files, S) ==
    /\ Range(files) = S
    /\ Len(files) = Cardinality(S)
    /\ \A i, j \in 1..Len(files) :
          (i < j /\ HasValidDate(files[i])) =>
              /\ HasValidDate(files[j])
              /\ DtLeq(DerivedTimestamp(files[i]), DerivedTimestamp(files[j]))

NothingToLoad ==
    ~base_exists \/ FoundFiles(result.dataco_number, present) = {}

\* C11: load_dataco_data called with a base directory that does not exist,
\* or with an id that matches no file, returns the empty aggregate: no
\* files, content, tags, sessions or failed files, counts 0, dates None, no
\* trailer line.
C11_NothingFoundIsEmpty ==
    (returned = "load" /\ NothingToLoad) =>
        /\ result.files = <<>>
        /\ result.content = <<>>
        /\ DOMAIN result.tag_counts = {}
        /\ result.session_names = {}
        /\ result.failed_files = <<>>
        /\ result.event_count = 0
        /\ result.processed_files_count = 0
        /\ result.min_date = None
        /\ result.max_date = None
        /\ DOMAIN result.project_map = {}
        /\ DOMAIN result.session_dates = {}

\* C11 witness: a load whose id matches none of the files that are present
\* has returned
C11_Witness ==
    /\ returned = "load"
    /\ base_exists
    /\ present # {}
    /\ FoundFiles(result.dataco_number, present) = {}
    /\ result.content = <<>>

\* The kept lines of a file, in the order of the file: the lines that are
\* non-empty after strip() and do not start with "#format:", stripped
KeptLinesOf(p) ==
    LET kept == SelectSeq(Universe[p].lines,
                          LAMBDA l : strip(l) # <<>> /\ ~startswith_format(strip(l)))
    IN  [i \in 1..Len(kept) |-> strip(kept[i])]

\* The kept lines of the files of the list, file after file
RECURSIVE ConcatKept(_)
ConcatKept(paths) ==
    IF paths = <<>> THEN <<>>
    ELSE KeptLinesOf(paths[1]) \o ConcatKept(Tail(paths))

\* The content without its trailer line
WithoutTrailer(content) ==
    IF EndsInTrailer(content) THEN SubSeq(content, 1, Len(content) - 1) ELSE content

\* The content, without its trailer, is the kept lines of the processed
\* files of the list, file after file in some order of the files
FileByFile(content, files) ==
    \E order \in Orderings({files[i] : i \in {j \in 1..Len(files) : TaskOk(files[j])}}) :
        WithoutTrailer(content) = ConcatKept(order)

\* C12: for every completion order, the content load_dataco_data or
\* process_files_multi_threaded returns is, without its trailer, the
\* concatenation over some permutation of the processed files of each
\* file's kept lines in their in-file order.
C12_ContentFileByFile ==
    /\ returned = "load" => FileByFile(result.content, result.files)
    /\ returned = "merge" => FileByFile(merged.content, merged.files)

\* C12 witness: a load of two processed files whose content begins with the
\* lines of the second file of the sorted list, a file of two kept lines
C12_Witness ==
    /\ returned = "load"
    /\ Len(result.files) = 2
    /\ TaskOk(result.files[1])
    /\ TaskOk(result.files[2])
    /\ Len(KeptLinesOf(result.files[1])) >= 1
    /\ Len(KeptLinesOf(result.files[2])) >= 2
    /\ WithoutTrailer(result.content) =
          KeptLinesOf(result.files[2]) \o KeptLinesOf(result.files[1])
    /\ KeptLinesOf(result.files[2]) \o KeptLinesOf(result.files[1])
          # KeptLinesOf(result.files[1]) \o KeptLinesOf(result.files[2])

\* The number of lines of the content with at least 4 whitespace-separated
\* fields
TaggedLines(content) ==
    Cardinality({i \in 1..Len(content) : Len(split(strip(content[i]))) >= 4})

\* The sum of the values of a Counter
CounterSum(c) == SumOver(DOMAIN c, c)

\* Every count is at least 0, and the counts add up to the number of lines
\* of the content with at least 4 fields, at most the number of lines
TagSumIs(tags, content) ==
    /\ \A t \in DOMAIN tags : tags[t] >= 0
    /\ CounterSum(tags) = TaggedLines(content)
    /\ TaggedLines(content) <= Len(content)

\* C13 as stated: at every point of the fold loops and in every aggregate
\* load_dataco_data or merge_dataco_results returns, every tag count is at
\* least 0 and the counts add up to the number of content lines with at
\* least 4 fields.
C13_TagSumIsTaggedLines ==
    /\ pc = "load" => TagSumIs(result.tag_counts, result.content)
    /\ pc = "merge" => TagSumIs(combined.tags, combined.content)
    /\ returned = "load" => TagSumIs(result.tag_counts, result.content)
    /\ returned = "merge" => TagSumIs(merged.tag_counts, merged.content)

\* C13 amended: the same, with the trailer line left out of the content
\* lines that are counted (the trailer has 5 fields and is no event).
C13_TagSumIsTaggedEventLines ==
    /\ pc = "load" => TagSumIs(result.tag_counts, WithoutTrailer(result.content))
    /\ pc = "merge" => TagSumIs(combined.tags, WithoutTrailer(combined.content))
    /\ returned = "load" => TagSumIs(result.tag_counts, WithoutTrailer(result.content))
    /\ returned = "merge" => TagSumIs(merged.tag_counts, WithoutTrailer(merged.content))

\* C13 witness: a returned load whose content holds tagged lines, a line of
\* fewer than 4 fields and the trailer
C13_Witness ==
    /\ returned = "load"
    /\ EndsInTrailer(result.content)
    /\ CounterSum(result.tag_counts) >= 2
    /\ CounterSum(result.tag_counts) < Len(WithoutTrailer(result.content))

\* The fold loop of load_dataco_data is left in this step
LoadLoopLeft == pc = "load" /\ pc' # "load"

\* The fold loop of process_files_multi_threaded is left in this step
MergeLoopLeft == pc = "merge" /\ pc' # "merge"

\* C14: under fair scheduling every run of load_dataco_data and of
\* process_files_multi_threaded that has dispatched its tasks returns, and
\* when it leaves its loop no future is pending and every file has been
\* folded: in load_dataco_data as processed or failed, in
\* process_files_multi_threaded with the lines of every processed file
\* counted.
C14_RunsReturnWithAllFolded ==
    /\ (pc = "load") ~> (returned = "load")
    /\ (pc = "merge") ~> (returned = "merge")
    /\ [][LoadLoopLeft =>
            /\ pending = {}
            /\ processed_count + Len(result.failed_files) = Len(result.files)]_vars
    /\ [][MergeLoopLeft =>
            /\ pending = {}
            /\ combined.event_count =
                  SeqSum([i \in 1..Len(merged.files) |-> LinesOnce(merged.files[i])])]_vars

\* C14 witness: a run of process_files_multi_threaded over a file whose
\* task failed and a file whose lines were folded has returned
C14_Witness ==
    /\ returned = "merge"
    /\ pending = {}
    /\ \E i \in 1..Len(merged.files) : ~TaskOk(merged.files[i])
    /\ merged.event_count >= 1

\* ------------------------------------------------------------------------
\* C15
\* ------------------------------------------------------------------------

\* The groups of d.project_map are pairwise disjoint, each holds files of its
\* own project folder, and together they are exactly the paths of d.files
GroupsPartitionFiles(d) ==
    /\ \A a, b \in DOMAIN d.project_map :
          a # b => d.project_map[a] \cap d.project_map[b] = {}
    /\ UNION {d.project_map[a] : a \in DOMAIN d.project_map} = Range(d.files)
    /\ \A i \in 1..Len(d.files) :
          Cardinality({a \in DOMAIN d.project_map : d.files[i] \in d.project_map[a]}) = 1

\* C15: in every aggregate returned by load_dataco_data or by
\* merge_dataco_results each path of files belongs to exactly one group of
\* project_map: the groups are pairwise disjoint and their union is the set
\* of the paths in files
C15_GroupsPartitionFiles ==
    /\ returned = "load" => GroupsPartitionFiles(result)
    /\ \A i \in 1..Len(datasets) : GroupsPartitionFiles(datasets[i])
    /\ returned = "merge" => GroupsPartitionFiles(merged)

\* A merge has returned whose inputs share a file and whose files lie in two
\* project folders
C15_Witness ==
    /\ returned = "merge"
    /\ Cardinality(DOMAIN merged.project_map) >= 2
    /\ Range(datasets[1].files) \cap Range(datasets[2].files) # {}
    /\ Range(datasets[1].files) # Range(datasets[2].files)

\* ------------------------------------------------------------------------
\* C16
\* ------------------------------------------------------------------------

\* The files find_dataco_files finds for the i-th id of the request
SeqFound(i) == seq_find_dataco_files(req.ids[i], base_exists, present)

\* The files found for any id of the request
SeqFoundUnion == UNION {SeqFound(i) : i \in 1..Len(req.ids)}

\* Two positions of the request find a common file
SeqSharesFile ==
    \E i, j \in 1..Len(req.ids) : i # j /\ SeqFound(i) \cap SeqFound(j) # {}

\* C16: when the file sets found for the ids of a sequential merge_datacos
\* share a file, the merged total_files, event_count and tag_counts count
\* that file and its lines once, not once per requesting id
C16_SeqMergeCountsSharedOnce ==
    (req.action = "seq_merge" /\ ret.kind = "seq_data" /\ SeqSharesFile) =>
        \E once \in Orderings(SeqFoundUnion) :
            /\ ret.total_files = Len(once)
            /\ ret.event_count = Len(seq_all_content(once))
            /\ ret.tag_counts = seq_tag_counter(once)

\* ------------------------------------------------------------------------
\* C17
\* ------------------------------------------------------------------------

\* The requested ids for which find_dataco_files finds a file
SeqIdsWithFiles == {req.ids[i] : i \in {j \in 1..Len(req.ids) : SeqFound(j) # {}}}

\* C17: a sequential compare_datacos or merge_datacos for which fewer than
\* two of the requested ids have a matching file returns the structured
\* error, no comparison and no merged dataset
C17_SeqTooFewIsAnError ==
    (/\ req.action \in {"seq_compare", "seq_merge"}
     /\ Cardinality(SeqIdsWithFiles) < 2) => ret.kind = "seq_error"

\* ------------------------------------------------------------------------
\* C18
\* ------------------------------------------------------------------------

\* The fold of load_dataco_data when the tasks of files complete in the
\* order of the list, started from the aggregate d0
RECURSIVE FoldInListOrder(_, _)
FoldInListOrder(d0, files) ==
    IF files = <<>> THEN [result |-> d0, processed_count |-> 0]
    ELSE LET n == Len(files)
         IN  FoldLoad(FoldInListOrder(d0, SubSeq(files, 1, n - 1)),
                      files[n], process_file_task(files[n]))

\* What load_dataco_data returns for the files and the project_map of d
\* when the tasks complete in the order of d.files
InListOrder(d) ==
    FinishLoad(FoldInListOrder([DATACOData(d.dataco_number) EXCEPT
                                   !.files = d.files,
                                   !.project_map = d.project_map],
                               d.files))

\* The multiset of the elements of a list
BagOfList(s) == [x \in Range(s) |-> Cardinality({i \in 1..Len(s) : s[i] = x})]

\* a and b agree on everything but the order inside content and failed_files
SameUpToOrder(a, b) ==
    /\ a.tag_counts = b.tag_counts
    /\ a.event_count = b.event_count
    /\ a.session_names = b.session_names
    /\ a.session_dates = b.session_dates
    /\ a.processed_files_count = b.processed_files_count
    /\ a.min_date = b.min_date
    /\ a.max_date = b.max_date
    /\ BagOfList(a.content) = BagOfList(b.content)
    /\ Range(a.failed_files) = Range(b.failed_files)

\* C18: for a fixed file set, every run of load_dataco_data, whatever the
\* completion order of its tasks, returns what the run in list order
\* returns, up to the file-level order inside content and the order of
\* failed_files: the same tag_counts, event_count, session_names,
\* session_dates, processed_files_count, min_date, max_date, multiset of
\* content lines and set of failed file names
C18_CompletionOrderIrrelevant ==
    /\ returned = "load" => SameUpToOrder(result, InListOrder(result))
    /\ \A i \in 1..Len(datasets) : SameUpToOrder(datasets[i], InListOrder(datasets[i]))

\* A load has returned whose tasks completed in another order than that of
\* the list: two files were folded and content is not that of the list order
C18_Witness ==
    /\ returned = "load"
    /\ result.processed_files_count = 2
    /\ result.content # InListOrder(result).content

\* ------------------------------------------------------------------------
\* C19
\* ------------------------------------------------------------------------

\* C19: in every aggregate returned by merge_dataco_results, also when the
\* inputs share files, processed_files_count is at most the number of paths
\* in files, and processed_files_count + len(failed_files) <= len(files)
C19_MergedCountsWithinFiles ==
    returned = "merge" =>
        /\ merged.processed_files_count <= Len(merged.files)
        /\ merged.processed_files_count + Len(merged.failed_files) <= Len(merged.files)

\* ------------------------------------------------------------------------
\* C20
\* ------------------------------------------------------------------------

\* C20: the sequential load_dataco called for an id with a matching file
\* returns a result dictionary, it does not raise, on every day of the
\* month, the first included; and so does the sequential merge_datacos
\* when no file name yields a date
C20_SeqReturnsOnEveryDay ==
    /\ (req.action = "seq_load" /\ SeqFound(1) # {}) => ret.kind # "exception"
    /\ (req.action = "seq_merge"
            /\ \A p \in SeqFoundUnion : seq_file_date(basename(p)) = None) =>
          ret.kind # "exception"

====
